---- MODULE Spec2Model ----
(***************************************************************************)
(* Model of virtualtd: the league simulator (simulators/run.py), the       *)
(* predictors (simulators/predictors.py) and the data they work on.        *)
(*                                                                         *)
(* Units.  Python floats are modelled by scaled integers:                  *)
(*   age, contract_years   in half years      (0.5 year  = 1)              *)
(*   skill_level, potential_level, skill_bonus in 1/100 skill point        *)
(*   xPoints               in 1/N_ITER points (a mean over N_ITER draws)   *)
(*   injury_proneness      in percent                                      *)
(*   player_value, money_to_spend in thousands of Euro, rounded down       *)
(* The match probabilities are exact fractions <<numerator, denominator>>. *)
(* A pandas DataFrame is a sequence of rows (records).  NA stands for a    *)
(* cell of a column the table does not have.                               *)
(***************************************************************************)
EXTENDS Integers, Sequences, FiniteSets, TLC

\* ------------------------------------------------------------------ bounds
NumTeams == 2
NumPositions == 1
N_ITER == 1
MaxHalves == 2
MaxDecisions == 2
MaxBuyList == 2
MaxCalls == 2
MaxRows == 2

\* ------------------------------------------------------- program constants
STARTER == 1
SUB == 2
ACADEMY == 3
BASE_VALUE == 1000
DEFAULT_STARTER_SHARE == 70
DEFAULT_SUB_SHARE == 20
DEFAULT_ACADEMY_SHARE == 10
WINDOW_STEP == 1

NA == 0 - 1

SquadHierarchy == {STARTER, SUB, ACADEMY}
Position == 1 .. NumPositions
Teams == 1 .. NumTeams

\* ------------------------------------------------------------ small helpers
Range(s) == {s[i] : i \in DOMAIN s}

RECURSIVE SumSeq(_)
SumSeq(s) == IF s = <<>> THEN 0 ELSE Head(s) + SumSeq(Tail(s))

RECURSIVE GCD(_, _)
GCD(a, b) == IF b = 0 THEN a ELSE GCD(b, a % b)

Abs(x) == IF x < 0 THEN 0 - x ELSE x

\* int(): truncation towards zero of the quotient n / d, d > 0
Trunc(n, d) == IF n >= 0 THEN n \div d ELSE 0 - ((0 - n) \div d)

\* -------------------------------------------------------- exact fractions
Frac(n, d) ==
    LET s == IF d < 0 THEN 0 - 1 ELSE 1
        g == GCD(Abs(n), Abs(d))
    IN  <<(s * n) \div g, (s * d) \div g>>

FInt(k) == <<k, 1>>
NaN == <<0, 0>>
FMul(x, y) ==
    LET g1 == GCD(Abs(x[1]), y[2])
        g2 == GCD(Abs(y[1]), x[2])
    IN  Frac((x[1] \div g1) * (y[1] \div g2), (x[2] \div g2) * (y[2] \div g1))
FAdd(x, y) ==
    LET l == (x[2] \div GCD(x[2], y[2])) * y[2]
    IN  Frac(x[1] * (l \div x[2]) + y[1] * (l \div y[2]), l)
FNeg(x) == <<0 - x[1], x[2]>>
FSub(x, y) == FAdd(x, FNeg(y))
FAbs(x) == <<Abs(x[1]), x[2]>>
FDiv(x, k) == FMul(x, <<1, k>>)
FTrunc(x) == Trunc(x[1], x[2])

\* ---------------------------------------------------------- CoachInstruction
CoachInstruction(st, su, ac) ==
    [starter_match_share |-> st, sub_match_share |-> su, academy_match_share |-> ac]

DefaultInstruction ==
    CoachInstruction(DEFAULT_STARTER_SHARE, DEFAULT_SUB_SHARE, DEFAULT_ACADEMY_SHARE)

\* the instructions a caller passes: the demo's, and starters only
Instructions ==
    {CoachInstruction(75, 5, 20), CoachInstruction(100, 0, 0)}

ShareOf(config, h) ==
    IF h = STARTER THEN config.starter_match_share
    ELSE IF h = SUB THEN config.sub_match_share
    ELSE config.academy_match_share

\* ------------------------------------------------------------ ValuePredictor
GetContractMultiplierMonths(contract_years) == Trunc(contract_years * 12, 2)

\* value = (skill^2 b + 0.5 (potential^2 b - skill^2 b)) * 27/age
\*         * (1 + 36/months, or 0) * (1 - injury), in thousands, rounded down
PredictPlayerValue(age, contract_years, skill, potential, injury) ==
    LET months == GetContractMultiplierMonths(contract_years)
        skill_value == skill * skill
        potential_value == (potential * potential - skill_value) \div 2
        value == ((skill_value + potential_value) * (BASE_VALUE \div 1000))
                     \div 10000
    IN  IF months > 0
        THEN (((value * 54 * (months + 36)) \div (age * months)) * (100 - injury))
                 \div 100
        ELSE 0

\* ------------------------------------------------------------------- tables
\* one row of a player table (the Player fields plus the simulation columns)
Row(name, contract, age, pos, skill, potential, value, h, injury, team, mine) ==
    [player_name |-> name, contract_years |-> contract, age |-> age,
     position |-> pos, skill_level |-> skill, potential_level |-> potential,
     player_value |-> value, squad_hierarchy |-> h, injury_proneness |-> injury,
     team |-> team, my_team |-> mine,
     n_matches |-> NA, minutes |-> NA, xPoints |-> NA, skill_bonus |-> NA]

PlayerColumns ==
    {"player_name", "contract_years", "age", "position", "skill_level",
     "potential_level", "player_value", "squad_hierarchy", "injury_proneness"}

RECURSIVE MapSeq(_, _)
MapSeq(Op(_), s) == IF s = <<>> THEN <<>> ELSE <<Op(Head(s))>> \o MapSeq(Op, Tail(s))

RECURSIVE FlattenSeq(_)
FlattenSeq(ss) == IF ss = <<>> THEN <<>> ELSE Head(ss) \o FlattenSeq(Tail(ss))

\* ----------------------------------------------------- population generator
\* The attribute draws of PlayerGenerator.create_player, two outcomes per
\* tier: <<age, contract_years, skill_level, potential_level, injury>>.
\* Each is a value the constraint classes can return: regular age in
\* [18,35], academy age in [18,21], contract 1..5 years, potential = skill
\* from age 28, potential >= skill below.
Draws(h, variant) ==
    IF h = STARTER
    THEN IF variant = 1 THEN <<69, 2, 6000, 6000, 5>> ELSE <<50, 6, 5500, 6000, 5>>
    ELSE IF h = SUB
    THEN IF variant = 1 THEN <<44, 4, 4500, 4600, 1>> ELSE <<56, 10, 4000, 4000, 5>>
    ELSE IF variant = 1 THEN <<41, 6, 3500, 9000, 5>> ELSE <<37, 2, 3000, 3050, 1>>

PlayerName(team, pos, h) == ((team - 1) * NumPositions + (pos - 1)) * 3 + h

\* faulty variant: the academy player of the last position left out
SquadCompositionShort ==
    SubSeq(FlattenSeq([p \in 1 .. NumPositions |->
               <<<<p, STARTER>>, <<p, SUB>>, <<p, ACADEMY>>>>]),
           1, 3 * NumPositions - 1)

\* TeamGenerator._get_squad_composition: every position with every tier
SquadComposition ==
    FlattenSeq([p \in 1 .. NumPositions |-> <<<<p, STARTER>>, <<p, SUB>>, <<p, ACADEMY>>>>])

CreatePlayer(team, profile, variant, mine) ==
    LET d == Draws(profile[2], variant)
    IN  Row(PlayerName(team, profile[1], profile[2]), d[2], d[1], profile[1],
            d[3], d[4], PredictPlayerValue(d[1], d[2], d[3], d[4], d[5]),
            profile[2], d[5], team, mine)

\* LeagueSimulator._set_league_players and _set_my_virtual_team
SetLeaguePlayers(mine, variants) ==
    FlattenSeq([t \in 1 .. NumTeams |->
        [i \in 1 .. Len(SquadComposition) |->
            CreatePlayer(t, SquadComposition[i],
                         IF t = mine THEN variants[SquadComposition[i][2]] ELSE 2,
                         t = mine)]])

SetLeagueTeams(mine) ==
    [t \in 1 .. NumTeams |-> [index |-> t - 1, squad_name |-> t, xPoints |-> 0, my_team |-> (t = mine)]]

\* --------------------------------------------------- TransferWindowSimulator
\* faulty variant: the step argument ignored, half a year always
DecreaseContractStepFixed(players, step) ==
    [i \in 1 .. Len(players) |->
        [players[i] EXCEPT !.contract_years = @ - WINDOW_STEP]]

DecreaseContractStep(players, step) ==
    [i \in 1 .. Len(players) |->
        [players[i] EXCEPT !.contract_years = @ - step]]

UpdateAge(players, step) ==
    [i \in 1 .. Len(players) |-> [players[i] EXCEPT !.age = @ + step]]

\* xPoints / (n_matches * 3) * (minutes / 10), in 1/100 skill point
SkillBonus(row) ==
    (row.xPoints * row.minutes * 100) \div (N_ITER * row.n_matches * 3 * 10)

\* faulty variant: the bonus added without the look at the potential
UpdateSkillGrowsAlways(row) == row.skill_level + SkillBonus(row) >= 0

UpdateSkillGrows(row) == row.skill_level + SkillBonus(row) < row.potential_level

UpdateSkill(row) ==
    LET skill_bonus == SkillBonus(row)
        r == [row EXCEPT !.skill_bonus = skill_bonus]
    IN  IF UpdateSkillGrows(row)
        THEN [r EXCEPT !.skill_level = @ + skill_bonus]
        ELSE r

UpdateTransferValue(row) ==
    PredictPlayerValue(row.age, row.contract_years, row.skill_level,
                       row.potential_level, row.injury_proneness)

\* the columns of the table after update_players returned: _update_skill
\* writes row['skill_bonus'] into every row
UpdatePlayersColumns(columns) == columns \cup {"skill_bonus"}

\* the exception update_players ends with, "none" when it returns
UpdatePlayersError(players, columns) ==
    IF ~({"xPoints", "n_matches", "minutes"} \subseteq columns) /\ players # <<>>
    THEN "KeyError"
    ELSE IF \E i \in 1 .. Len(players) : players[i].n_matches * 3 = 0
    THEN "ZeroDivisionError"
    ELSE "none"

\* the table of the simulator after update_players(step); contract and age
\* are stepped in place before the row-wise pass that can raise
UpdatePlayers(players, columns, step) ==
    LET stepped == UpdateAge(DecreaseContractStep(players, step), step)
    IN  IF UpdatePlayersError(players, columns) # "none"
        THEN stepped
        ELSE [i \in 1 .. Len(stepped) |->
                 LET r == UpdateSkill(stepped[i])
                 IN  [r EXCEPT !.player_value = UpdateTransferValue(r)]]

UpdatedPlayers(players, my_team_only) ==
    IF my_team_only THEN SelectSeq(players, LAMBDA r : r.my_team) ELSE players

\* ------------------------------------------------------------ MatchPredictor
\* MatchPredictor.__init__
NewMatchPredictor(skill_team_a, skill_team_b) ==
    [skill_a |-> skill_team_a, skill_b |-> skill_team_b,
     win_prob_a |-> Frac(100, 3), draw_prob |-> Frac(100, 3),
     win_prob_b |-> Frac(100, 3)]

\* faulty variant: the draw probability of the class documentation, one in
\* three for equal skills, shrinking with the skill difference
SetDrawProbabilityShrinks(m) ==
    LET draw == FAbs(FSub(FDiv(m.skill_a, 100), FDiv(m.skill_b, 100)))
    IN  [m EXCEPT !.draw_prob = FMul(@, FSub(FInt(1), draw))]

SetDrawProbability(m) ==
    LET draw == FAbs(FSub(FDiv(m.skill_a, 100), FDiv(m.skill_b, 100)))
    IN  [m EXCEPT !.draw_prob = FMul(@, draw)]

TeamAWinShare(m) == FAdd(FInt(50), FSub(m.skill_a, m.skill_b))

\* faulty variant: the share of team B computed with the sign of team A
TeamBWinShareOfA(m) == FAdd(FInt(50), FSub(m.skill_a, m.skill_b))

TeamBWinShare(m) == FAdd(FInt(50), FSub(m.skill_b, m.skill_a))

SetWinProbability(m) ==
    LET combined_win_prob == FSub(FInt(100), m.draw_prob)
    IN  [m EXCEPT !.win_prob_a = FMul(FDiv(TeamAWinShare(m), 100), combined_win_prob),
                  !.win_prob_b = FMul(FDiv(TeamBWinShare(m), 100), combined_win_prob)]

GenerateProbDistribution(m) == SetWinProbability(SetDrawProbability(m))

\* ----------------------------------------------------------- LineUpPredictor
\* the tiers random.choice can return from the option distribution
OptionDistribution(config) == {h \in SquadHierarchy : ShareOf(config, h) > 0}

\* faulty variant: the line_up_player column written only when it is missing,
\* so that the marks of an earlier call stay
ResetLineUpPlayerOnce(squad_players, line_up_player) ==
    IF line_up_player = <<>>
    THEN [i \in 1 .. Len(squad_players) |-> FALSE]
    ELSE line_up_player

\* squad_players.loc[:, 'line_up_player'] = False; the column is <<>> before
\* the first call
ResetLineUpPlayer(squad_players, line_up_player) ==
    [i \in 1 .. Len(squad_players) |-> FALSE]

\* _set_line_up_player with the tier random.choice returned
SetLineUpPlayer(squad_players, line_up_player, position, hierarchy) ==
    [i \in 1 .. Len(squad_players) |->
        IF squad_players[i].position = position
           /\ squad_players[i].squad_hierarchy = hierarchy
        THEN TRUE
        ELSE line_up_player[i]]

\* for position in Position: self._set_line_up_player(position)
RECURSIVE SetLineUpPlayers(_, _, _, _)
SetLineUpPlayers(squad_players, line_up_player, pick, position) ==
    IF position > NumPositions THEN line_up_player
    ELSE SetLineUpPlayers(squad_players,
             SetLineUpPlayer(squad_players, line_up_player, position, pick[position]),
             pick, position + 1)

\* the line_up_player column after get_set_line_up, the tier drawn for each
\* position given by pick
LineUpPlayerColumn(squad_players, line_up_player, pick) ==
    SetLineUpPlayers(squad_players,
                     ResetLineUpPlayer(squad_players, line_up_player), pick, 1)

\* squad_players[squad_players['line_up_player']]
LineUpRows(squad_players, line_up_player) ==
    LET marked == SelectSeq([i \in 1 .. Len(squad_players) |-> i],
                            LAMBDA i : line_up_player[i])
    IN  [k \in 1 .. Len(marked) |-> squad_players[marked[k]]]

\* get_set_line_up of a newly constructed predictor
GetSetLineUp(squad_players, pick) ==
    LineUpRows(squad_players, LineUpPlayerColumn(squad_players, <<>>, pick))

\* skill_level.mean() of a line-up; NaN for a line-up without players
SkillMean(line_up) ==
    IF line_up = <<>> THEN NaN
    ELSE Frac(SumSeq([i \in 1 .. Len(line_up) |-> line_up[i].skill_level]),
              100 * Len(line_up))

\* ------------------------------------------------------------ MatchSimulator
\* simulate_line_up, every one of the n draws of a side giving the same
\* line-up: both returned values are computed from the home side's list
SimulateLineUp(home_line_up, away_line_up) ==
    LET home_team_skill == SkillMean(home_line_up)
        away_team_skill == SkillMean(away_line_up)
    IN  <<home_team_skill, home_team_skill>>

\* the points of the home side the outcome lottery can give in one draw
HomePoints(m) ==
    (IF FTrunc(m.draw_prob) > 0 THEN {1} ELSE {})
        \cup (IF FTrunc(m.win_prob_a) > 0 THEN {3} ELSE {})
        \cup (IF FTrunc(m.win_prob_b) > 0 THEN {0} ELSE {})

RECURSIVE SumsOf(_, _)
SumsOf(pts, k) ==
    IF k = 0 THEN {0} ELSE {t + p : t \in SumsOf(pts, k - 1), p \in pts}

\* simulate_match: the values sum(home_xp) can take; int() of a NaN
\* probability raises ValueError
SimulateMatch(home_line_up, away_line_up) ==
    LET skills == SimulateLineUp(home_line_up, away_line_up)
    IN  IF skills[1] = NaN \/ skills[2] = NaN
        THEN [error |-> "ValueError", home_xp |-> {}]
        ELSE [error |-> "none",
              home_xp |-> SumsOf(HomePoints(GenerateProbDistribution(
                              NewMatchPredictor(skills[1], skills[2]))), N_ITER)]

\* ------------------------------------------------------- SemiSeasonSimulator
TeamPlayers(players, team) == SelectSeq(players, LAMBDA r : r.team = team)

InstructionOf(team, virtual_team, virtual_instruction) ==
    IF team = virtual_team THEN virtual_instruction ELSE DefaultInstruction

\* _set_line_up_player for every position: the tiers random.choice can draw.
\* Every call of get_set_line_up draws anew.  The draws of the managed team
\* are inputs; a team that is not managed never loses a player, and its draws
\* are taken to be the starters.
LineUpPicks(team, virtual_team, config) ==
    IF team = virtual_team
    THEN [Position -> OptionDistribution(config)]
    ELSE {[p \in Position |-> STARTER]}

\* the line-ups a LineUpPredictor(config, players of the team) can return
LineUps(players, team, virtual_team, config) ==
    LET squad_players == TeamPlayers(players, team)
    IN  {GetSetLineUp(squad_players, pick) :
            pick \in LineUpPicks(team, virtual_team, config)}

\* simulate_season: the predictor of the team whose calendar is simulated
HomeLineUps(players, team, virtual_team, virtual_instruction) ==
    LineUps(players, team, virtual_team,
            InstructionOf(team, virtual_team, virtual_instruction))

\* simulate_match_calendar: the opponent, always on the default instruction
AwayLineUps(players, opponent, virtual_team) ==
    LineUps(players, opponent, virtual_team, DefaultInstruction)

Opponents(teams, team) ==
    SelectSeq([i \in 1 .. Len(teams) |-> teams[i].squad_name], LAMBDA o : o # team)

\* simulate_match_calendar: for every opponent of the team, the results
\* simulate_match can give
MatchCalendar(teams, players, team, virtual_team, virtual_instruction) ==
    LET opp == Opponents(teams, team)
        home == HomeLineUps(players, team, virtual_team, virtual_instruction)
    IN  [i \in 1 .. Len(opp) |->
            {SimulateMatch(h, a) :
                h \in home, a \in AwayLineUps(players, opp[i], virtual_team)}]

\* the ways the calendar of a team can end: with the exception of a match,
\* or without one
CalendarError(calendar) ==
    (IF \E i \in 1 .. Len(calendar) : \E m \in calendar[i] : m.error # "none"
     THEN {"ValueError"} ELSE {})
        \cup (IF \A i \in 1 .. Len(calendar) : \E m \in calendar[i] : m.error = "none"
              THEN {"none"} ELSE {})

\* team_xp: home_xp summed over the matches of the calendar, the lottery
\* draws of a team taken to fall the same way against every opponent
CalendarXp(calendar) ==
    IF calendar = <<>> THEN {0}
    ELSE LET xp == [i \in 1 .. Len(calendar) |->
                       UNION {m.home_xp : m \in {n \in calendar[i] : n.error = "none"}}]
         IN  {Len(calendar) * x : x \in
                 {y \in xp[1] : \A i \in 1 .. Len(calendar) : y \in xp[i]}}

\* simulate_season: the calendar of every team of the table
SeasonCalendars(teams, players, virtual_team, virtual_instruction) ==
    [i \in 1 .. Len(teams) |->
        MatchCalendar(teams, players, teams[i].squad_name, virtual_team,
                      virtual_instruction)]

\* simulate_season: the ways it can end, "none" when it returns
SimulateSeasonError(calendars) ==
    LET ends == [i \in 1 .. Len(calendars) |-> CalendarError(calendars[i])]
    IN  (IF \E i \in 1 .. Len(calendars) : "ValueError" \in ends[i]
         THEN {"ValueError"} ELSE {})
            \cup (IF \A i \in 1 .. Len(calendars) : "none" \in ends[i]
                  THEN {"none"} ELSE {})

RECURSIVE Vectors(_)
Vectors(sets) ==
    IF sets = <<>> THEN {<<>>}
    ELSE {<<x>> \o v : x \in Head(sets), v \in Vectors(Tail(sets))}

\* simulate_season: the tables _teams can become, team_xp being one of the
\* values the lottery of the team's matches can give
SimulateSeason(teams, calendars) ==
    {[i \in 1 .. Len(teams) |-> [teams[i] EXCEPT !.xPoints = @ + xp[i]]] :
        xp \in Vectors([i \in 1 .. Len(teams) |-> CalendarXp(calendars[i])])}

\* faulty variant: the sort in ascending order
SortValuesAscending(teams) ==
    {s \in [1 .. Len(teams) -> Range(teams)] :
        /\ \A i, j \in 1 .. Len(teams) : i # j => s[i] # s[j]
        /\ \A i \in 1 .. Len(teams) - 1 : s[i].xPoints <= s[i + 1].xPoints}

\* sort_values("xPoints", ascending=False): the rows keep their index, and
\* the order of teams with equal points is not fixed
SortValues(teams) ==
    {s \in [1 .. Len(teams) -> Range(teams)] :
        /\ \A i, j \in 1 .. Len(teams) : i # j => s[i] # s[j]
        /\ \A i \in 1 .. Len(teams) - 1 : s[i].xPoints >= s[i + 1].xPoints}

\* reset_index(drop=True): the index counts the rows from 0
ResetIndex(teams) == [i \in 1 .. Len(teams) |-> [teams[i] EXCEPT !.index = i - 1]]

\* the league_teams property
SortedTeams(teams) == {ResetIndex(s) : s \in SortValues(teams)}

\* ------------------------------------------------------------ LeagueSimulator
ResetMatches(players) ==
    [i \in 1 .. Len(players) |-> [players[i] EXCEPT !.n_matches = 0]]

TeamXPoints(teams, team) ==
    LET hits == SelectSeq(teams, LAMBDA t : t.squad_name = team)
    IN  IF hits = <<>> THEN NA ELSE hits[Len(hits)].xPoints

\* _update_players_in_season_half
UpdatePlayersInSeasonHalf(players, teams, virtual_instruction) ==
    [i \in 1 .. Len(players) |->
        LET r == players[i]
            config == IF r.my_team THEN virtual_instruction ELSE DefaultInstruction
            xp == TeamXPoints(teams, r.team)
        IN  [r EXCEPT !.n_matches = @ + (NumTeams - 1),
                      !.minutes = ShareOf(config, r.squad_hierarchy),
                      !.xPoints = IF xp = NA THEN @ ELSE xp]]

\* ---------------------------------------------------------- DecisionSimulator
AutoTerminateAcademyPlayers(players) ==
    SelectSeq(players, LAMBDA r :
        r.squad_hierarchy \in {SUB, STARTER} \/ r.age < 2 * 21)

\* faulty variant: a contract that has just run out survives
AutoTerminationKeepsExpired(players) ==
    AutoTerminateAcademyPlayers(
        SelectSeq(players, LAMBDA r : r.contract_years >= 0 /\ r.age < 2 * 35))

AutoTermination(players) ==
    AutoTerminateAcademyPlayers(
        SelectSeq(players, LAMBDA r : r.contract_years > 0 /\ r.age < 2 * 35))

SellPlayersSquad(players, player_list) ==
    SelectSeq(players, LAMBDA r : r.player_name \notin player_list)

\* faulty variant: the sale is charged to the balance
SellPlayersMoneyDebit(players, money, player_list) ==
    LET to_sell == SelectSeq(players, LAMBDA r : r.player_name \in player_list)
    IN  money - SumSeq([i \in 1 .. Len(to_sell) |-> to_sell[i].player_value])

SellPlayersMoney(players, money, player_list) ==
    LET to_sell == SelectSeq(players, LAMBDA r : r.player_name \in player_list)
    IN  money + SumSeq([i \in 1 .. Len(to_sell) |-> to_sell[i].player_value])

\* extensions: a function from player names to whole years
ExtendContractsSquad(players, extensions) ==
    [i \in 1 .. Len(players) |->
        IF players[i].player_name \in DOMAIN extensions
        THEN [players[i] EXCEPT !.contract_years = 2 * extensions[players[i].player_name]]
        ELSE players[i]]

\* promotions: a function from player names to tiers
PromotePlayersSquad(players, promotions) ==
    [i \in 1 .. Len(players) |->
        IF players[i].player_name \in DOMAIN promotions
        THEN [players[i] EXCEPT !.squad_hierarchy = promotions[players[i].player_name]]
        ELSE players[i]]

\* _validate_transfer, left operand: the value against the balance
ValidateTransferBalance(player, money) == player.player_value < money

\* _validate_transfer, right operand: the rows of the squad in the
\* candidate's position and the candidate's own tier
ValidateTransferSlot(players, player) ==
    SelectSeq(players, LAMBDA r :
        r.position = player.position /\ r.squad_hierarchy = player.squad_hierarchy)

\* _validate_transfer: both operands of & are evaluated, and the right one
\* calls DataFrame.empty, a bool property: TypeError, whatever the squad
ValidateTransfer(players, money, player) ==
    [error |-> "TypeError",
     valid |-> ValidateTransferBalance(player, money)
                   /\ ValidateTransferSlot(players, player) = <<>>]

AddPlayerToSquad(players, transfer, team_name) ==
    Append(players,
        [player_name |-> transfer.player.player_name,
         contract_years |-> 2 * transfer.contract,
         age |-> transfer.player.age,
         position |-> transfer.player.position,
         skill_level |-> transfer.player.skill_level,
         potential_level |-> transfer.player.potential_level,
         player_value |-> transfer.player.player_value,
         squad_hierarchy |-> transfer.squad_hierarchy,
         injury_proneness |-> transfer.player.injury_proneness,
         team |-> team_name, n_matches |-> 0, my_team |-> TRUE,
         minutes |-> 0, xPoints |-> 0, skill_bonus |-> NA])

\* buy_players: the loop over buy_list; report lists the outcome printed
\* for every transfer the loop got through
RECURSIVE BuyPlayersLoop(_, _, _, _, _)
BuyPlayersLoop(players, money, team_name, buy_list, report) ==
    IF buy_list = <<>>
    THEN [players |-> players, money |-> money, report |-> report, error |-> "none"]
    ELSE LET transfer == Head(buy_list)
             check == ValidateTransfer(players, money, transfer.player)
         IN  IF check.error # "none"
             THEN [players |-> players, money |-> money, report |-> report,
                   error |-> check.error]
             ELSE IF check.valid
             THEN BuyPlayersLoop(AddPlayerToSquad(players, transfer, team_name),
                             money - transfer.player.player_value, team_name,
                             Tail(buy_list), Append(report, "valid"))
             ELSE BuyPlayersLoop(players, money, team_name, Tail(buy_list),
                             Append(report, "invalid"))

\* ---------------------------------------------------- TransferMarktGenerator
\* a player of the transfer market: skill from SkillConstraint(50, 25)
\* .get_academy_skill(), potential for an age between 24 and 28
MarketPlayer ==
    [player_name |-> 1000, contract_years |-> 4, age |-> 50, position |-> 1,
     skill_level |-> 2000, potential_level |-> 3000,
     player_value |-> PredictPlayerValue(50, 4, 2000, 3000, 5),
     squad_hierarchy |-> SUB, injury_proneness |-> 5]

\* the transfer records a caller builds: the candidate, a target tier and a
\* contract length in years
Transfers ==
    {[player |-> MarketPlayer, squad_hierarchy |-> h, contract |-> 3] :
        h \in {STARTER, SUB}}

BuyLists ==
    UNION {[1 .. n -> Transfers] : n \in 0 .. MaxBuyList}

\* -------------------------------------------------------------------- state
VARIABLES
    my_team,          \* LeagueSimulator.my_team
    instruction,      \* the CoachInstruction of the caller (VIRTUAL_INSTRUCTION)
    league_players,   \* LeagueSimulator._league_players
    league_columns,   \* the columns of _league_players
    league_teams,     \* LeagueSimulator._league_teams
    updated_squad,    \* the table run_transfer_window returned last
    has_squad,        \* a run_transfer_window has returned
    tm,               \* the TransferWindowSimulator used last
    ds_players,       \* DecisionSimulator._players
    ds_exists,        \* a DecisionSimulator has been constructed
    money_to_spend,   \* DecisionSimulator.money_to_spend
    mp,               \* a MatchPredictor
    lup,              \* a LineUpPredictor
    opp,              \* the LineUpPredictor of the opponent in a match
    vp,               \* a ValuePredictor
    gen,              \* the generators' settings and what they returned last
    err,              \* the exception the last call ended with, or "none"
    last,             \* the last call: its name, arguments and pre-state
    count,            \* the calls the caller has left, by kind
    phase             \* the place in the flow of the LeagueSimulator

vars == <<my_team, instruction, league_players, league_columns, league_teams, updated_squad,
          has_squad, tm, ds_players, ds_exists, money_to_spend, mp, lup, opp, gen, vp, err, last,
          count, phase>>

SimulationColumns == {"n_matches", "minutes", "xPoints"}

NoCall ==
    [op |-> "init", players |-> <<>>, money |-> 0, buy_list |-> <<>>,
     report |-> <<>>, df_players |-> <<>>, calls |-> 0]

Call(op, players) == [NoCall EXCEPT !.op = op, !.players = players]

\* ValuePredictor(player_age, contract_years, skill_level, potential, injury)
NewValuePredictor(player_age, contract_years, skill_level, potential, injury) ==
    [age |-> player_age, contract |-> contract_years, skill |-> skill_level,
     potential |-> potential, injury |-> injury, base_value |-> BASE_VALUE]

\* no ValuePredictor constructed
NoValuePredictor == NewValuePredictor(36, 0, 0, 0, 0)

\* no generator constructed
NoGenerator ==
    [team_strength |-> 0, strength_sd |-> 0, skill |-> NA, player |-> <<>>,
     squad |-> <<>>]

\* no LineUpPredictor constructed
NoLineUpPredictor ==
    [config |-> DefaultInstruction, squad_players |-> <<>>,
     line_up_player |-> <<>>, line_up |-> <<>>]

NoTm == [input |-> <<>>, columns |-> {}, step |-> 0, players |-> <<>>]

\* the calls of a run: halves season halves, decisions calls of the
\* DecisionSimulator, one start_new_season
Calls(halves, decisions) ==
    [halves |-> halves, decisions |-> decisions, seasons |-> 1]

\* LeagueSimulator.__init__ on a generated league; calls is what the caller
\* goes on to do
InitLeague(calls) ==
    /\ my_team = 1
    /\ instruction \in Instructions
    /\ \E variant \in 1 .. 2 :
           league_players = SetLeaguePlayers(my_team, [h \in SquadHierarchy |-> variant])
    /\ league_columns = PlayerColumns \cup {"team", "my_team"}
    /\ league_teams = SetLeagueTeams(my_team)
    /\ updated_squad = <<>>
    /\ has_squad = FALSE
    /\ tm = NoTm
    /\ ds_players = <<>>
    /\ ds_exists = FALSE
    /\ money_to_spend = 0
    /\ mp = NewMatchPredictor(FInt(0), FInt(0))
    /\ lup = NoLineUpPredictor
    /\ opp = NoLineUpPredictor
    /\ vp = NoValuePredictor
    /\ gen = NoGenerator
    /\ err = "none"
    /\ last = NoCall
    /\ count = calls
    /\ phase = "season"

Init == InitLeague(Calls(MaxHalves, 0))

\* ------------------------------------------------- LeagueSimulator, actions
\* The flow of the class documentation: a season half, a transfer window,
\* the decisions of the caller, update_end_of_transfer_window, and again;
\* start_new_season after the last half.
RunSeasonHalf ==
    /\ phase = "season"
    /\ count.halves > 0
    /\ phase' = "played"
    /\ LET virtual_instruction == instruction
           reset == ResetMatches(league_players)
           calendars == SeasonCalendars(league_teams, reset, my_team,
                                        virtual_instruction)
       IN  \E error \in SimulateSeasonError(calendars) :
               /\ err' = error
               /\ last' = Call("run_season_half", league_players)
               /\ league_columns' = league_columns \cup
                      (IF error = "none" THEN SimulationColumns ELSE {"n_matches"})
               /\ IF error # "none"
                  THEN /\ league_players' = reset
                       /\ UNCHANGED league_teams
                  ELSE \E simulated \in SimulateSeason(league_teams, calendars) :
                       \E sorted \in SortedTeams(simulated) :
                           /\ league_teams' = sorted
                           /\ league_players' =
                                  UpdatePlayersInSeasonHalf(reset, sorted, virtual_instruction)
    /\ count' = [count EXCEPT !.halves = @ - 1]
    /\ UNCHANGED <<my_team, instruction, updated_squad, has_squad, tm, ds_players,
                   ds_exists, money_to_spend, mp, lup, opp, gen, vp>>

RunTransferWindow ==
    /\ phase = "played"
    /\ LET error == UpdatePlayersError(league_players, league_columns)
           updated == UpdatePlayers(league_players, league_columns, WINDOW_STEP)
       IN  /\ err' = error
           /\ tm' = [input |-> league_players, columns |-> league_columns,
                     step |-> WINDOW_STEP, players |-> updated]
           /\ IF error = "none"
              THEN /\ updated_squad' = UpdatedPlayers(updated, TRUE)
                   /\ has_squad' = TRUE
                   /\ phase' = "window"
              ELSE /\ UNCHANGED <<updated_squad, has_squad>>
                   /\ phase' = "season"
    /\ last' = Call("run_transfer_window", league_players)
    /\ UNCHANGED <<my_team, instruction, league_players, league_columns, league_teams,
                   ds_players, ds_exists, money_to_spend, mp, lup, opp, gen, vp, count>>

\* faulty variant: the rows of the managed team stay in the table
OtherTeamsAndStale(players, team) == players

\* _league_players[_league_players['team'] != self.my_team]
OtherTeams(players, team) == SelectSeq(players, LAMBDA r : r.team # team)

\* update_end_of_transfer_window(df_players), df_players being the table
\* run_transfer_window returned or the updated_squad of the DecisionSimulator;
\* the caller is done with both after the call
UpdateEndOfTransferWindow ==
    /\ phase = "window"
    /\ has_squad
    /\ phase' = "season"
    /\ \E df_players \in {updated_squad} \cup (IF ds_exists THEN {ds_players} ELSE {}) :
           /\ league_players' =
                  OtherTeams(league_players, my_team) \o df_players
           /\ last' = [Call("update_end_of_transfer_window", league_players)
                          EXCEPT !.df_players = df_players]
    /\ league_columns' = league_columns \cup UpdatePlayersColumns(tm.columns)
    /\ err' = "none"
    /\ has_squad' = FALSE
    /\ updated_squad' = <<>>
    /\ ds_exists' = FALSE
    /\ ds_players' = <<>>
    /\ money_to_spend' = 0
    /\ UNCHANGED <<my_team, instruction, league_teams, tm, mp, lup, opp, gen, vp, count>>

StartNewSeason ==
    /\ phase = "season"
    /\ count.halves = 0
    /\ count.seasons > 0
    /\ UNCHANGED phase
    /\ league_players' = [i \in 1 .. Len(league_players) |->
                             [league_players[i] EXCEPT !.xPoints = 0, !.minutes = 0]]
    /\ league_teams' = [i \in 1 .. Len(league_teams) |->
                           [league_teams[i] EXCEPT !.xPoints = 0]]
    /\ league_columns' = league_columns \cup {"xPoints", "minutes"}
    /\ err' = "none"
    /\ last' = Call("start_new_season", league_players)
    /\ count' = [count EXCEPT !.seasons = @ - 1]
    /\ UNCHANGED <<my_team, instruction, updated_squad, has_squad, tm, ds_players, ds_exists,
                   money_to_spend, mp, lup, opp, gen, vp>>

\* ----------------------------------------------- DecisionSimulator, actions
\* DecisionSimulator(updated_squad, my_team), as the demo script builds it
NewDecisionSimulator ==
    /\ phase = "window"
    /\ has_squad
    /\ ~ds_exists
    /\ UNCHANGED phase
    /\ ds_players' = AutoTermination(updated_squad)
    /\ ds_exists' = TRUE
    /\ money_to_spend' = 0
    /\ err' = "none"
    /\ last' = Call("DecisionSimulator", updated_squad)
    /\ UNCHANGED <<my_team, instruction, league_players, league_columns, league_teams,
                   updated_squad, has_squad, tm, mp, lup, opp, gen, vp, count>>

SquadNames == {ds_players[i].player_name : i \in 1 .. Len(ds_players)}

\* a name of no player of the squad
StrangerName == 2000

Decide(op) ==
    /\ phase = "window"
    /\ ds_exists
    /\ UNCHANGED phase
    /\ count.decisions > 0
    /\ count' = [count EXCEPT !.decisions = @ - 1]
    /\ last' = [Call(op, ds_players) EXCEPT !.money = money_to_spend]
    /\ UNCHANGED <<my_team, instruction, league_players, league_columns, league_teams,
                   updated_squad, has_squad, tm, ds_exists, mp, lup, opp, gen, vp>>

SellPlayers ==
    /\ Decide("sell_players")
    /\ \E player_list \in {{n} : n \in SquadNames \cup {StrangerName}} :
           /\ ds_players' = SellPlayersSquad(ds_players, player_list)
           /\ money_to_spend' = SellPlayersMoney(ds_players, money_to_spend, player_list)
    /\ err' = "none"

ExtendContracts ==
    /\ Decide("extend_contracts")
    /\ \E player \in SquadNames : \E years \in {5} :
           ds_players' = ExtendContractsSquad(ds_players, [n \in {player} |-> years])
    /\ err' = "none"
    /\ UNCHANGED money_to_spend

PromotePlayers ==
    /\ Decide("promote_players")
    /\ \E player \in SquadNames : \E h \in SquadHierarchy :
           ds_players' = PromotePlayersSquad(ds_players, [n \in {player} |-> h])
    /\ err' = "none"
    /\ UNCHANGED money_to_spend

BuyPlayers ==
    /\ phase = "window"
    /\ ds_exists
    /\ UNCHANGED phase
    /\ count.decisions > 0
    /\ count' = [count EXCEPT !.decisions = @ - 1]
    /\ \E buy_list \in BuyLists :
           LET result == BuyPlayersLoop(ds_players, money_to_spend, my_team, buy_list, <<>>)
           IN  /\ ds_players' = result.players
               /\ money_to_spend' = result.money
               /\ err' = result.error
               /\ last' = [Call("buy_players", ds_players) EXCEPT
                              !.money = money_to_spend, !.buy_list = buy_list,
                              !.report = result.report]
    /\ UNCHANGED <<my_team, instruction, league_players, league_columns, league_teams,
                   updated_squad, has_squad, tm, ds_exists, mp, lup, opp, gen, vp>>

\* the league through its season halves and transfer windows, the squad of
\* a window going through the constructor of the DecisionSimulator
Next ==
    \/ RunSeasonHalf
    \/ RunTransferWindow
    \/ UpdateEndOfTransferWindow
    \/ StartNewSeason
    \/ NewDecisionSimulator

Spec == Init /\ [][Next]_vars

\* the same flow with the decisions of the caller in the transfer windows
InitDecision == InitLeague(Calls(MaxHalves, MaxDecisions))

NextDecision ==
    \/ Next
    \/ SellPlayers
    \/ ExtendContracts
    \/ PromotePlayers
    \/ BuyPlayers

SpecDecision == InitDecision /\ [][NextDecision]_vars

\* ------------------------------------------- MatchPredictor on its own
SkillSamples == {0, 10, 25, 40, 50, 55, 75, 90, 100}

InitMatch ==
    /\ \E a \in SkillSamples : \E b \in SkillSamples :
           mp = NewMatchPredictor(FInt(a), FInt(b))
    /\ lup = NoLineUpPredictor
    /\ opp = NoLineUpPredictor
    /\ vp = NoValuePredictor
    /\ gen = NoGenerator
    /\ my_team = 1
    /\ instruction = DefaultInstruction
    /\ league_players = <<>>
    /\ league_columns = {}
    /\ league_teams = <<>>
    /\ updated_squad = <<>>
    /\ has_squad = FALSE
    /\ tm = NoTm
    /\ ds_players = <<>>
    /\ ds_exists = FALSE
    /\ money_to_spend = 0
    /\ err = "none"
    /\ last = NoCall
    /\ count = Calls(0, 0)
    /\ phase = "predictor"

GenerateProb ==
    /\ phase = "predictor"
    /\ last.calls < MaxCalls
    /\ mp' = GenerateProbDistribution(mp)
    /\ last' = [NoCall EXCEPT !.op = "generate_prob_distribution",
                              !.calls = last.calls + 1]
    /\ err' = "none"
    /\ UNCHANGED <<my_team, instruction, league_players, league_columns,
                   league_teams, updated_squad, has_squad, tm, ds_players,
                   ds_exists, money_to_spend, lup, opp, gen, vp, count, phase>>

NextMatch == GenerateProb

SpecMatch == InitMatch /\ [][NextMatch]_vars

\* ---------------------------------- TransferWindowSimulator on its own
\* rows of a league table after a season half: a generated player with the
\* columns _update_players_in_season_half fills
WindowRows ==
    {[CreatePlayer(1, <<1, h>>, variant, mine) EXCEPT
          !.n_matches = played[1], !.minutes = played[2], !.xPoints = played[3]] :
        h \in SquadHierarchy, variant \in 1 .. 2, mine \in BOOLEAN,
        played \in {<<1, 70, 3>>, <<0, 20, 0>>, <<1, 10, 0>>}}

WindowTables == UNION {[1 .. n -> WindowRows] : n \in 1 .. MaxRows}

InitWindow ==
    /\ \E table \in WindowTables :
       \E columns \in {PlayerColumns \cup {"team", "my_team"},
                       PlayerColumns \cup {"team", "my_team"} \cup SimulationColumns} :
       \E step \in 1 .. 2 :
           tm = [input |-> table, columns |-> columns, step |-> step,
                 players |-> table]
    /\ mp = NewMatchPredictor(FInt(0), FInt(0))
    /\ lup = NoLineUpPredictor
    /\ opp = NoLineUpPredictor
    /\ vp = NoValuePredictor
    /\ gen = NoGenerator
    /\ my_team = 1
    /\ instruction = DefaultInstruction
    /\ league_players = <<>>
    /\ league_columns = {}
    /\ league_teams = <<>>
    /\ updated_squad = <<>>
    /\ has_squad = FALSE
    /\ ds_players = <<>>
    /\ ds_exists = FALSE
    /\ money_to_spend = 0
    /\ err = "none"
    /\ last = NoCall
    /\ count = Calls(0, 0)
    /\ phase = "simulator"

\* update_players(step) on the simulator
TransferWindowUpdatePlayers ==
    /\ phase = "simulator"
    /\ last.calls < MaxCalls
    /\ tm' = [tm EXCEPT !.players = UpdatePlayers(tm.players, tm.columns, tm.step)]
    /\ err' = UpdatePlayersError(tm.players, tm.columns)
    /\ last' = [Call("update_players", tm.players) EXCEPT !.calls = last.calls + 1]
    /\ UNCHANGED <<my_team, instruction, league_players, league_columns,
                   league_teams, updated_squad, has_squad, mp, lup, opp, gen, vp, ds_players,
                   ds_exists, money_to_spend, count, phase>>

NextWindow == TransferWindowUpdatePlayers

SpecWindow == InitWindow /\ [][NextWindow]_vars

\* ------------------------------------------------- LineUpPredictor alone
\* instructions with at least one positive share
LineUpInstructions ==
    Instructions \cup {DefaultInstruction, CoachInstruction(0, 100, 0),
                       CoachInstruction(0, 0, 100), CoachInstruction(0, 50, 50)}

\* a squad without its row number missing; the whole squad for missing = 0
WithoutRow(players, missing) ==
    [i \in 1 .. (IF missing = 0 THEN Len(players) ELSE Len(players) - 1) |->
        IF missing = 0 \/ i < missing THEN players[i] ELSE players[i + 1]]

\* LineUpPredictor(config, df_squad_players) on a generated squad, whole or
\* with one player gone
InitLineUp ==
    /\ \E config \in LineUpInstructions :
       \E variants \in [SquadHierarchy -> 1 .. 2] :
       \E missing \in 0 .. 3 * NumPositions :
           lup = [config |-> config,
                  squad_players |->
                      WithoutRow(TeamPlayers(SetLeaguePlayers(1, variants), 1), missing),
                  line_up_player |-> <<>>,
                  line_up |-> <<>>]
    /\ mp = NewMatchPredictor(FInt(0), FInt(0))
    /\ opp = NoLineUpPredictor
    /\ vp = NoValuePredictor
    /\ gen = NoGenerator
    /\ tm = NoTm
    /\ my_team = 1
    /\ instruction = DefaultInstruction
    /\ league_players = <<>>
    /\ league_columns = {}
    /\ league_teams = <<>>
    /\ updated_squad = <<>>
    /\ has_squad = FALSE
    /\ ds_players = <<>>
    /\ ds_exists = FALSE
    /\ money_to_spend = 0
    /\ err = "none"
    /\ last = NoCall
    /\ count = Calls(0, 0)
    /\ phase = "line_up"

\* get_set_line_up() on the predictor; last.players keeps the line-up of the
\* call before
LineUpPredictorGetSetLineUp ==
    /\ phase = "line_up"
    /\ last.calls < MaxCalls
    /\ \E pick \in [Position -> OptionDistribution(lup.config)] :
           LET column == LineUpPlayerColumn(lup.squad_players, lup.line_up_player, pick)
           IN  lup' = [lup EXCEPT !.line_up_player = column,
                                  !.line_up = LineUpRows(lup.squad_players, column)]
    /\ last' = [Call("get_set_line_up", lup.line_up) EXCEPT !.calls = last.calls + 1]
    /\ err' = "none"
    /\ UNCHANGED <<my_team, instruction, league_players, league_columns,
                   league_teams, updated_squad, has_squad, tm, mp, opp, gen, vp, ds_players,
                   ds_exists, money_to_spend, count, phase>>

NextLineUp == LineUpPredictorGetSetLineUp

SpecLineUp == InitLineUp /\ [][NextLineUp]_vars

\* ------------------------------------------- one match of a season half
\* SemiSeasonSimulator on a generated league, any team the managed one
InitCalendar ==
    /\ \E mine \in Teams : \E config \in Instructions :
       \E variants \in [SquadHierarchy -> 1 .. 2] :
           /\ my_team = mine
           /\ instruction = config
           /\ league_players = ResetMatches(SetLeaguePlayers(mine, variants))
           /\ league_teams = SetLeagueTeams(mine)
    /\ league_columns = PlayerColumns \cup {"team", "my_team", "n_matches"}
    /\ mp = NewMatchPredictor(FInt(0), FInt(0))
    /\ lup = NoLineUpPredictor
    /\ opp = NoLineUpPredictor
    /\ vp = NoValuePredictor
    /\ gen = NoGenerator
    /\ tm = NoTm
    /\ updated_squad = <<>>
    /\ has_squad = FALSE
    /\ ds_players = <<>>
    /\ ds_exists = FALSE
    /\ money_to_spend = 0
    /\ err = "none"
    /\ last = NoCall
    /\ count = Calls(0, 0)
    /\ phase = "calendar"

\* a LineUpPredictor after the draws of a match
DrawnLineUp(config, squad_players, pick) ==
    LET column == LineUpPlayerColumn(squad_players, <<>>, pick)
    IN  [config |-> config, squad_players |-> squad_players,
         line_up_player |-> column, line_up |-> LineUpRows(squad_players, column)]

\* one pass of the loop of simulate_match_calendar, for a team of the loop of
\* simulate_season: the two predictors are built and simulate_match runs;
\* last.money keeps home_xp times N_ITER
SimulateCalendarMatch ==
    /\ phase = "calendar"
    /\ last.calls < MaxCalls
    /\ \E team \in Teams : \E opponent \in Range(Opponents(league_teams, team)) :
           LET team_config == InstructionOf(team, my_team, instruction)
               opponent_config == DefaultInstruction
               team_players == TeamPlayers(league_players, team)
               opp_team_players == TeamPlayers(league_players, opponent)
           IN  \E home_pick \in [Position -> OptionDistribution(team_config)] :
               \E away_pick \in [Position -> OptionDistribution(opponent_config)] :
                   LET home == DrawnLineUp(team_config, team_players, home_pick)
                       away == DrawnLineUp(opponent_config, opp_team_players, away_pick)
                       skills == SimulateLineUp(home.line_up, away.line_up)
                       sim == SimulateMatch(home.line_up, away.line_up)
                   IN  /\ lup' = home
                       /\ opp' = away
                       /\ err' = sim.error
                       /\ IF sim.error = "none"
                          THEN /\ mp' = GenerateProbDistribution(
                                            NewMatchPredictor(skills[1], skills[2]))
                               /\ \E home_xp \in sim.home_xp :
                                      last' = [Call("simulate_match", team_players)
                                                  EXCEPT !.money = home_xp,
                                                         !.calls = last.calls + 1]
                          ELSE /\ UNCHANGED mp
                               /\ last' = [Call("simulate_match", team_players)
                                               EXCEPT !.calls = last.calls + 1]
    /\ UNCHANGED <<my_team, instruction, league_players, league_columns,
                   league_teams, updated_squad, has_squad, tm, gen, vp, ds_players,
                   ds_exists, money_to_spend, count, phase>>

NextCalendar == SimulateCalendarMatch

SpecCalendar == InitCalendar /\ [][NextCalendar]_vars

\* ------------------------------------------------------ generators alone
\* the outcomes of one random draw that are told apart
Draw == 1 .. 3

\* random.uniform(a, b) = a + (b - a) * random(): the first bound, the
\* middle, or the value next to the second bound
Uniform(a, b, u) ==
    IF u = 1 THEN a
    ELSE IF u = 2 THEN (a + b) \div 2
    ELSE IF a < b THEN b - 1 ELSE IF a > b THEN b + 1 ELSE b

\* SkillConstraint._get_valid_range, in 1/100 skill point
GetValidRange(team_strength, range_k, shift) ==
    LET mu == team_strength - shift
        lower == IF mu - range_k > 0 THEN mu - range_k ELSE 0
        upper == IF mu + range_k < 10000 THEN team_strength + range_k ELSE 10000
    IN  <<lower, upper>>

GetStarterSkill(team_strength, strength_sd, u) ==
    LET range == GetValidRange(team_strength, strength_sd \div 2, 0)
    IN  Uniform(range[1], range[2], u)

GetSubSkill(team_strength, strength_sd, u) ==
    LET range == GetValidRange(team_strength, strength_sd \div 2, strength_sd)
    IN  Uniform(range[1], range[2], u)

GetAcademySkill(team_strength, strength_sd, u) ==
    LET range == GetValidRange(team_strength, strength_sd \div 2,
                               (3 * strength_sd) \div 2)
    IN  Uniform(range[1], range[2], u)

\* PotentialConstraint.get_potential; age in half years
GetPotential(age, skill_level, strength_sd, u) ==
    IF age <= 48 THEN Uniform(skill_level, 10000, u)
    ELSE IF age < 56 THEN Uniform(skill_level, skill_level + strength_sd, u)
    ELSE skill_level

\* AgeConstraint: an age of each potential bracket, in half years
GetRegularAge == {48, 50, 56}
GetAcademyAge == {36, 42}

\* ContractConstraint: randint(1, 5) years for both kinds, in half years
GetRegularContract == {2, 10}
GetAcademyContract == {2, 10}

SetAge(h) == IF h \in {STARTER, SUB} THEN GetRegularAge ELSE GetAcademyAge

SetContractYears(h) ==
    IF h \in {STARTER, SUB} THEN GetRegularContract ELSE GetAcademyContract

\* PlayerGenerator._set_skill_level
SetSkillLevel(h, team_strength, strength_sd, u) ==
    IF h = STARTER THEN GetStarterSkill(team_strength, strength_sd, u)
    ELSE IF h = SUB THEN GetSubSkill(team_strength, strength_sd, u)
    ELSE GetAcademySkill(team_strength, strength_sd, u)

\* the injury proneness of the created players, in percent
GetInjuryProneness == 5

\* the draws of one create_player call: contract, age, and the outcomes of
\* the two uniform draws
PlayerDraws(h) ==
    [contract_years : SetContractYears(h), age : SetAge(h), skill : Draw,
     potential : Draw]

\* PlayerGenerator(profile, names, team_strength, strength_sd).create_player()
PlayerGeneratorCreatePlayer(profile, team_strength, strength_sd, d) ==
    LET skill_level == SetSkillLevel(profile[2], team_strength, strength_sd, d.skill)
        potential_level == GetPotential(d.age, skill_level, strength_sd, d.potential)
        injury == GetInjuryProneness
    IN  [player_name |-> PlayerName(1, profile[1], profile[2]),
         contract_years |-> d.contract_years,
         age |-> d.age,
         position |-> profile[1],
         skill_level |-> skill_level,
         potential_level |-> potential_level,
         player_value |-> PredictPlayerValue(d.age, d.contract_years, skill_level,
                                             potential_level, injury),
         squad_hierarchy |-> profile[2],
         injury_proneness |-> injury]

\* TransferMarktGenerator._create_player: SkillConstraint(50, 25) and the
\* academy range for every role
TransferMarktCreatePlayer(profile, d) ==
    LET skill_level == GetAcademySkill(5000, 2500, d.skill)
        potential_level == GetPotential(d.age, skill_level, 2500, d.potential)
        injury == GetInjuryProneness
    IN  [player_name |-> 0,
         contract_years |-> d.contract_years,
         age |-> d.age,
         position |-> profile[1],
         skill_level |-> skill_level,
         potential_level |-> potential_level,
         player_value |-> PredictPlayerValue(d.age, d.contract_years, skill_level,
                                             potential_level, injury),
         squad_hierarchy |-> profile[2],
         injury_proneness |-> injury]

\* TeamGenerator._set_players: one create_player per profile of the squad
\* composition, the draws of a tier falling the same way for every position
SetPlayers(team_strength, strength_sd, draws) ==
    [i \in 1 .. Len(SquadComposition) |->
        PlayerGeneratorCreatePlayer(SquadComposition[i], team_strength, strength_sd,
                                    draws[SquadComposition[i][2]])]

\* the draws of a create_team call, one record per tier: every age, the
\* skill at either end of its range
TeamDraws ==
    {draws \in [SquadHierarchy -> UNION {PlayerDraws(h) : h \in SquadHierarchy}] :
        \A h \in SquadHierarchy :
            /\ draws[h] \in PlayerDraws(h)
            /\ draws[h].contract_years = 2
            /\ draws[h].skill # 2
            /\ draws[h].potential = 3}

\* team strengths and deviations a league can give, in 1/100 skill point
TeamStrengths == {0, 5000, 6000, 9800, 10000}
StrengthSds == {0, 1000, 1500, 2500}

InitGenerator ==
    /\ \E team_strength \in TeamStrengths : \E strength_sd \in StrengthSds :
           gen = [NoGenerator EXCEPT !.team_strength = team_strength,
                                     !.strength_sd = strength_sd]
    /\ mp = NewMatchPredictor(FInt(0), FInt(0))
    /\ lup = NoLineUpPredictor
    /\ opp = NoLineUpPredictor
    /\ vp = NoValuePredictor
    /\ tm = NoTm
    /\ my_team = 1
    /\ instruction = DefaultInstruction
    /\ league_players = <<>>
    /\ league_columns = {}
    /\ league_teams = <<>>
    /\ updated_squad = <<>>
    /\ has_squad = FALSE
    /\ ds_players = <<>>
    /\ ds_exists = FALSE
    /\ money_to_spend = 0
    /\ err = "none"
    /\ last = NoCall
    /\ count = Calls(0, 0)
    /\ phase = "generator"

\* what every generator call leaves alone; the generators keep nothing from
\* one call to the next but the names they gave, so one call is followed
GeneratorCall(op) ==
    /\ phase = "generator"
    /\ phase' = "generated"
    /\ last' = [NoCall EXCEPT !.op = op, !.calls = last.calls + 1]
    /\ err' = "none"
    /\ UNCHANGED <<my_team, instruction, league_players, league_columns,
                   league_teams, updated_squad, has_squad, tm, mp, lup, opp, vp, ds_players,
                   ds_exists, money_to_spend, count>>

\* SkillConstraint(team_strength, strength_sd).get_starter_skill()
SkillConstraintGetStarterSkill ==
    /\ GeneratorCall("get_starter_skill")
    /\ \E u \in Draw :
           gen' = [gen EXCEPT !.skill = GetStarterSkill(gen.team_strength,
                                                       gen.strength_sd, u),
                              !.player = <<>>, !.squad = <<>>]

SkillConstraintGetSubSkill ==
    /\ GeneratorCall("get_sub_skill")
    /\ \E u \in Draw :
           gen' = [gen EXCEPT !.skill = GetSubSkill(gen.team_strength,
                                                   gen.strength_sd, u),
                              !.player = <<>>, !.squad = <<>>]

SkillConstraintGetAcademySkill ==
    /\ GeneratorCall("get_academy_skill")
    /\ \E u \in Draw :
           gen' = [gen EXCEPT !.skill = GetAcademySkill(gen.team_strength,
                                                       gen.strength_sd, u),
                              !.player = <<>>, !.squad = <<>>]

\* PlayerGenerator.create_player for a profile of the squad composition
CreateLeaguePlayer ==
    /\ GeneratorCall("create_player")
    /\ \E i \in 1 .. Len(SquadComposition) :
       \E d \in PlayerDraws(SquadComposition[i][2]) :
           gen' = [gen EXCEPT !.player = <<PlayerGeneratorCreatePlayer(
                                            SquadComposition[i], gen.team_strength,
                                            gen.strength_sd, d)>>,
                              !.skill = NA, !.squad = <<>>]

\* TransferMarktGenerator._create_player: position and role drawn at random
CreateMarketPlayer ==
    /\ GeneratorCall("_create_player")
    /\ \E position \in Position : \E role \in SquadHierarchy :
       \E d \in PlayerDraws(role) :
           gen' = [gen EXCEPT !.player = <<TransferMarktCreatePlayer(
                                            <<position, role>>, d)>>,
                              !.skill = NA, !.squad = <<>>]

\* TeamGenerator(team_strength, strength_sd, ...).create_team()
CreateTeam ==
    /\ GeneratorCall("create_team")
    /\ \E draws \in TeamDraws :
           gen' = [gen EXCEPT !.squad = SetPlayers(gen.team_strength,
                                                   gen.strength_sd, draws),
                              !.skill = NA, !.player = <<>>]

NextGenerator ==
    \/ SkillConstraintGetStarterSkill
    \/ SkillConstraintGetSubSkill
    \/ SkillConstraintGetAcademySkill
    \/ CreateLeaguePlayer
    \/ CreateMarketPlayer
    \/ CreateTeam

SpecGenerator == InitGenerator /\ [][NextGenerator]_vars

\* -------------------------------------------------- ValuePredictor alone
\* _get_contract_multiplier: self._contract = int(self._contract * 12), the
\* months taking the place of the years (kept in half years)
GetContractMultiplier(v) ==
    [v EXCEPT !.contract = 2 * GetContractMultiplierMonths(v.contract)]

\* the value predict_player_value returns for the predictor as it stands
PredictedValue(v) ==
    PredictPlayerValue(v.age, v.contract, v.skill, v.potential, v.injury)

\* the players a value is predicted for: <<skill_level, potential>>
ValuedSkills == {<<3000, 9000>>, <<5500, 6000>>, <<6000, 6000>>}

\* a predictor on a player; last.players keeps the arguments it was built on
InitValue ==
    /\ \E age \in {36, 50, 70} : \E contract \in {0, 1, 2, 6, 10} :
       \E skills \in ValuedSkills : \E injury \in {1, 5} :
           /\ vp = NewValuePredictor(age, contract, skills[1], skills[2], injury)
           /\ last = [NoCall EXCEPT !.players = <<vp>>]
    /\ mp = NewMatchPredictor(FInt(0), FInt(0))
    /\ lup = NoLineUpPredictor
    /\ opp = NoLineUpPredictor
    /\ gen = NoGenerator
    /\ tm = NoTm
    /\ my_team = 1
    /\ instruction = DefaultInstruction
    /\ league_players = <<>>
    /\ league_columns = {}
    /\ league_teams = <<>>
    /\ updated_squad = <<>>
    /\ has_squad = FALSE
    /\ ds_players = <<>>
    /\ ds_exists = FALSE
    /\ money_to_spend = 0
    /\ err = "none"
    /\ count = Calls(0, 0)
    /\ phase = "value"

\* predict_player_value() on the predictor; last.report lists the values
\* returned so far
ValuePredictorPredictPlayerValue ==
    /\ phase = "value"
    /\ last.calls < MaxCalls
    /\ vp' = GetContractMultiplier(vp)
    /\ last' = [last EXCEPT !.op = "predict_player_value",
                            !.calls = last.calls + 1,
                            !.report = Append(last.report, PredictedValue(vp))]
    /\ err' = "none"
    /\ UNCHANGED <<my_team, instruction, league_players, league_columns,
                   league_teams, updated_squad, has_squad, tm, mp, lup, opp, gen,
                   ds_players, ds_exists, money_to_spend, count, phase>>

NextValue == ValuePredictorPredictPlayerValue

SpecValue == InitValue /\ [][NextValue]_vars

\* ------------------------------------------------- rejection resampling
\* the random generator behind random.normalvariate: a stream that repeats
\* after Period draws; the deviation of each draw from mu in half sigmas
Offsets == <<0, 0 - 3, 3, 0 - 1, 1, 0 - 2>>
Period == Len(Offsets)

\* random.normalvariate(mu, sigma) at a position of the stream
NormalVariate(mu, sigma, position) ==
    LET k == Offsets[position + 1]
    IN  IF k >= 0 THEN mu + (sigma * k) \div 2 ELSE mu - (sigma * (0 - k)) \div 2

\* the loops: get_regular_age and get_academy_age of an
\* AgeConstraint(min_age, max_age, max_acd_age) with the default mu and sigma
\* (ages in half years), get_skill of a LeagueGenerator(league_strength,
\* competitiveness_sd) (1/100 skill point)
ResampleLoops ==
    {[op |-> "get_regular_age", lower |-> c[1], upper |-> c[2], mu |-> 50, sigma |-> 7] :
        c \in {<<36, 70, 42>>, <<46, 48, 42>>, <<80, 70, 42>>}}
    \cup
    {[op |-> "get_academy_age", lower |-> c[1], upper |-> c[3], mu |-> 37, sigma |-> 2] :
        c \in {<<36, 70, 42>>, <<36, 70, 34>>, <<44, 70, 42>>}}
    \cup
    {[op |-> "get_skill", lower |-> 0, upper |-> 10000, mu |-> g[1], sigma |-> g[2]] :
        g \in {<<5000, 1000>>, <<5000, 5000>>, <<9500, 1000>>, <<15000, 0>>}}

\* the loop condition: value < lower or value > upper
OutOfRange(loop) == loop.value < loop.lower \/ loop.value > loop.upper

InitResample ==
    /\ \E loop \in ResampleLoops : \E position \in 0 .. Period - 1 :
           gen = [op |-> loop.op, lower |-> loop.lower, upper |-> loop.upper,
                  mu |-> loop.mu, sigma |-> loop.sigma, position |-> position,
                  value |-> NA, returned |-> NA]
    /\ mp = NewMatchPredictor(FInt(0), FInt(0))
    /\ lup = NoLineUpPredictor
    /\ opp = NoLineUpPredictor
    /\ vp = NoValuePredictor
    /\ tm = NoTm
    /\ my_team = 1
    /\ instruction = DefaultInstruction
    /\ league_players = <<>>
    /\ league_columns = {}
    /\ league_teams = <<>>
    /\ updated_squad = <<>>
    /\ has_squad = FALSE
    /\ ds_players = <<>>
    /\ ds_exists = FALSE
    /\ money_to_spend = 0
    /\ err = "none"
    /\ last = NoCall
    /\ count = Calls(0, 0)
    /\ phase = "called"

\* what the steps of a loop leave alone
ResampleStep ==
    /\ err' = "none"
    /\ UNCHANGED <<my_team, instruction, league_players, league_columns,
                   league_teams, updated_squad, has_squad, tm, mp, lup, opp, vp,
                   ds_players, ds_exists, money_to_spend, count>>

\* value = random.normalvariate(mu, sigma), before the loop
FirstSample ==
    /\ phase = "called"
    /\ phase' = "loop"
    /\ gen' = [gen EXCEPT !.value = NormalVariate(gen.mu, gen.sigma, gen.position),
                          !.position = (gen.position + 1) % Period]
    /\ last' = [NoCall EXCEPT !.op = gen.op]
    /\ ResampleStep

\* the body of the while loop: the value is out of range and drawn again
Resample ==
    /\ phase = "loop"
    /\ OutOfRange(gen)
    /\ gen' = [gen EXCEPT !.value = NormalVariate(gen.mu, gen.sigma, gen.position),
                          !.position = (gen.position + 1) % Period]
    /\ UNCHANGED <<last, phase>>
    /\ ResampleStep

\* the loop is left and the value returned
ReturnSample ==
    /\ phase = "loop"
    /\ ~OutOfRange(gen)
    /\ phase' = "returned"
    /\ gen' = [gen EXCEPT !.returned = gen.value]
    /\ UNCHANGED last
    /\ ResampleStep

NextResample == FirstSample \/ Resample \/ ReturnSample

\* the generator keeps running: a step that can be taken is taken
SpecResample == InitResample /\ [][NextResample]_vars /\ WF_vars(NextResample)

\* ------------------------------------------------------- names of players
\* the full names names.get_full_name can return: more than a league and a
\* market need
PoolSize == NumTeams * 3 * NumPositions + MaxRows + 1

\* the random stream behind names.get_full_name: where it starts and how
\* often a name comes up in a row
NameSeeds == [start : 0 .. PoolSize - 1, repeat : 1 .. 3]

\* names.get_full_name(), draw number n of the stream
GetFullName(seed, n) == (seed.start + n \div seed.repeat) % PoolSize

\* while player_name in self._player_names: draw again
RECURSIVE RedrawName(_, _, _)
RedrawName(seed, n, player_names) ==
    IF GetFullName(seed, n) \in Range(player_names)
    THEN RedrawName(seed, n + 1, player_names)
    ELSE [player_name |-> GetFullName(seed, n), draws |-> n + 1]

\* faulty variant: the first name drawn is taken, occupied or not
GetPlayerNameOnce(seed, n, player_names) ==
    [player_name |-> GetFullName(seed, n), draws |-> n + 1]

\* get_player_name of PlayerGenerator and of TransferMarktGenerator, n draws
\* of the stream being used up; gives the name and the draws used up then
GetPlayerName(seed, n, player_names) == RedrawName(seed, n, player_names)

\* the draws of the players whose names are followed
NamedDraws(h) ==
    [contract_years |-> 2, age |-> IF h = ACADEMY THEN 36 ELSE 48,
     skill |-> 1, potential |-> 1]

\* TeamGenerator._set_players from profile number i on: create_player, then
\* self._player_names.append(player.player_name)
RECURSIVE SetNamedPlayers(_, _, _, _, _, _)
SetNamedPlayers(seed, n, player_names, team_strength, i, created_players) ==
    IF i > Len(SquadComposition)
    THEN [squad_players |-> created_players, player_names |-> player_names,
          draws |-> n]
    ELSE LET profile == SquadComposition[i]
             name == GetPlayerName(seed, n, player_names)
             player == [PlayerGeneratorCreatePlayer(profile, team_strength, 1000,
                                                    NamedDraws(profile[2]))
                           EXCEPT !.player_name = name.player_name]
         IN  SetNamedPlayers(seed, name.draws,
                             Append(player_names, player.player_name),
                             team_strength, i + 1, Append(created_players, player))

SquadPlayerNames(squad_players) ==
    [i \in 1 .. Len(squad_players) |-> squad_players[i].player_name]

\* LeagueGenerator._set_teams from team number t on: the list of names is
\* the one the TeamGenerator appends to, and is extended once more
RECURSIVE SetTeams(_, _, _, _, _, _)
SetTeams(seed, n, player_names, team_strength, t, created_teams) ==
    IF t > NumTeams
    THEN [league_squads |-> created_teams, player_names |-> player_names,
          draws |-> n]
    ELSE LET team == SetNamedPlayers(seed, n, player_names, team_strength, 1, <<>>)
         IN  SetTeams(seed, team.draws,
                      team.player_names \o SquadPlayerNames(team.squad_players),
                      team_strength, t + 1,
                      Append(created_teams, team.squad_players))

\* generate_transfermarkt(n_players) from player number i on: _create_player
\* appends nothing to self._player_names
RECURSIVE GenerateTransfermarkt(_, _, _, _, _, _, _)
GenerateTransfermarkt(seed, n, player_names, role, n_players, i, created) ==
    IF i > n_players
    THEN [players |-> created, draws |-> n]
    ELSE LET name == GetPlayerName(seed, n, player_names)
             player == [TransferMarktCreatePlayer(<<1, role>>, NamedDraws(role))
                           EXCEPT !.player_name = name.player_name]
         IN  GenerateTransfermarkt(seed, name.draws, player_names, role,
                                   n_players, i + 1, Append(created, player))

\* the interface's PLAYER_NAMES: the names of all players of the league
LeaguePlayerNames(league_squads) ==
    FlattenSeq([t \in 1 .. Len(league_squads) |-> SquadPlayerNames(league_squads[t])])

InitNames ==
    /\ \E seed \in NameSeeds : \E team_strength \in {5000, 6000} :
           gen = [seed |-> seed, draws |-> 0, team_strength |-> team_strength,
                  league_squads |-> <<>>, occupied_names |-> <<>>, market |-> <<>>]
    /\ mp = NewMatchPredictor(FInt(0), FInt(0))
    /\ lup = NoLineUpPredictor
    /\ opp = NoLineUpPredictor
    /\ vp = NoValuePredictor
    /\ tm = NoTm
    /\ my_team = 1
    /\ instruction = DefaultInstruction
    /\ league_players = <<>>
    /\ league_columns = {}
    /\ league_teams = <<>>
    /\ updated_squad = <<>>
    /\ has_squad = FALSE
    /\ ds_players = <<>>
    /\ ds_exists = FALSE
    /\ money_to_spend = 0
    /\ err = "none"
    /\ last = NoCall
    /\ count = Calls(0, 0)
    /\ phase = "names"

\* what the calls of the name generators leave alone
NamesCall(op) ==
    /\ last' = [NoCall EXCEPT !.op = op, !.calls = last.calls + 1]
    /\ err' = "none"
    /\ UNCHANGED <<my_team, instruction, league_players, league_columns,
                   league_teams, updated_squad, has_squad, tm, mp, lup, opp, vp,
                   ds_players, ds_exists, money_to_spend, count>>

\* LeagueGenerator(...).create_league(), every team of the strength get_skill
\* gave; the interface then collects the names of the league
CreateLeague ==
    /\ phase = "names"
    /\ phase' = "league"
    /\ NamesCall("create_league")
    /\ LET league == SetTeams(gen.seed, gen.draws, <<>>, gen.team_strength, 1, <<>>)
       IN  gen' = [gen EXCEPT !.league_squads = league.league_squads,
                              !.occupied_names = LeaguePlayerNames(league.league_squads),
                              !.draws = league.draws]

\* TransferMarktGenerator(occupied_names).generate_transfermarkt(n_players)
TransferMarktGenerate ==
    /\ phase \in {"names", "league"}
    /\ phase' = "market"
    /\ NamesCall("generate_transfermarkt")
    /\ \E n_players \in 1 .. MaxRows : \E role \in SquadHierarchy :
           LET market == GenerateTransfermarkt(gen.seed, gen.draws, gen.occupied_names,
                                               role, n_players, 1, <<>>)
           IN  gen' = [gen EXCEPT !.market = market.players, !.draws = market.draws]

NextNames == CreateLeague \/ TransferMarktGenerate

SpecNames == InitNames /\ [][NextNames]_vars

\* ------------------------------------------------------------------ claims
NameRows(players, name) == SelectSeq(players, LAMBDA r : r.player_name = name)

AllRows(players, P(_)) == \A i \in 1 .. Len(players) : P(players[i])

SomeRow(players, P(_)) == \E i \in 1 .. Len(players) : P(players[i])

\* C1: after run_transfer_window() and update_end_of_transfer_window(slice),
\* every player of the league-wide table, of whatever team, has
\* contract_years 0.5 lower and age 0.5 higher than before the window.
C1_WindowStepsEveryLeaguePlayer ==
    (/\ last.op = "update_end_of_transfer_window"
     /\ Range(last.df_players) \subseteq Range(UpdatedPlayers(tm.players, TRUE))) =>
        \A i \in 1 .. Len(league_players) : \A j \in 1 .. Len(tm.input) :
            league_players[i].player_name = tm.input[j].player_name =>
                /\ league_players[i].contract_years =
                       tm.input[j].contract_years - WINDOW_STEP
                /\ league_players[i].age = tm.input[j].age + WINDOW_STEP

\* C2: update_players(step) lowers contract_years by step and raises age by
\* step in every row of the simulator's table, whatever the row's other
\* attributes, and adds or removes no row.
C2_UpdatePlayersStepsEveryRow ==
    last.op = "update_players" =>
        /\ Len(tm.players) = Len(last.players)
        /\ \A i \in 1 .. Len(tm.players) :
               /\ tm.players[i].player_name = last.players[i].player_name
               /\ tm.players[i].contract_years = last.players[i].contract_years - tm.step
               /\ tm.players[i].age = last.players[i].age + tm.step

C2_Witness ==
    /\ last.op = "update_players"
    /\ err = "none"
    /\ tm.step = 2
    /\ Len(tm.players) = 2
    /\ tm.players[1].squad_hierarchy # tm.players[2].squad_hierarchy
    /\ tm.players[1].skill_level > last.players[1].skill_level
    /\ tm.players[2].skill_level = last.players[2].skill_level
    /\ tm.players[1].my_team /\ ~tm.players[2].my_team

\* C3: in every reachable state every player of every table has
\* skill_level <= potential_level.
SkillWithinPotential(row) == row.skill_level <= row.potential_level

C4_OnePlayerPerCell ==
    ds_exists =>
        \A i, j \in 1 .. Len(ds_players) :
            (/\ ds_players[i].position = ds_players[j].position
             /\ ds_players[i].squad_hierarchy = ds_players[j].squad_hierarchy) => i = j

CellRows(players, position, h) ==
    SelectSeq(players, LAMBDA r : r.position = position /\ r.squad_hierarchy = h)

\* C5: buy_players rejects a transfer whose target cell (the candidate's
\* position with the tier of the transfer record) is occupied, and the
\* rejection leaves money_to_spend and the squad as they were.
C5_OccupiedCellRejected ==
    (/\ last.op = "buy_players"
     /\ Len(last.buy_list) = 1
     /\ CellRows(last.players, last.buy_list[1].player.position,
                 last.buy_list[1].squad_hierarchy) # <<>>) =>
        /\ last.report = <<"invalid">>
        /\ money_to_spend = last.money
        /\ ds_players = last.players

\* C6: a buy is accepted exactly when the candidate's value is <= the
\* balance and the target cell is empty; an accepted buy takes the value off
\* money_to_spend and adds one row with n_matches, minutes and xPoints 0,
\* my_team True and the managed team's name.
C6_BuyAcceptedExactlyWhenValid ==
    (last.op = "buy_players" /\ Len(last.buy_list) = 1) =>
        LET transfer == last.buy_list[1]
            valid == /\ transfer.player.player_value <= last.money
                     /\ CellRows(last.players, transfer.player.position,
                                 transfer.squad_hierarchy) = <<>>
        IN  IF valid
            THEN /\ money_to_spend = last.money - transfer.player.player_value
                 /\ Len(ds_players) = Len(last.players) + 1
                 /\ SubSeq(ds_players, 1, Len(last.players)) = last.players
                 /\ LET row == ds_players[Len(ds_players)]
                    IN  /\ row.player_name = transfer.player.player_name
                        /\ row.n_matches = 0 /\ row.minutes = 0 /\ row.xPoints = 0
                        /\ row.my_team /\ row.team = my_team
            ELSE /\ money_to_spend = last.money
                 /\ ds_players = last.players

\* C7: buy_players goes through the whole list in order and never aborts:
\* every entry gets its outcome, no exception is raised.
C7_BuyListNeverAborts ==
    last.op = "buy_players" =>
        /\ err = "none"
        /\ Len(last.report) = Len(last.buy_list)

\* C8: right after construction the squad holds no player with
\* contract_years <= 0, none aged 35 or more, no academy player aged 21 or
\* more, and still every starter and sub of the input with contract_years > 0
\* and age < 35.
C8_AutoTermination ==
    last.op = "DecisionSimulator" =>
        /\ \A i \in 1 .. Len(ds_players) :
               /\ ds_players[i].contract_years > 0
               /\ ds_players[i].age < 2 * 35
               /\ ds_players[i].squad_hierarchy = ACADEMY => ds_players[i].age < 2 * 21
        /\ \A i \in 1 .. Len(last.players) :
               (/\ last.players[i].squad_hierarchy \in {STARTER, SUB}
                /\ last.players[i].contract_years > 0
                /\ last.players[i].age < 2 * 35) =>
                   \E j \in 1 .. Len(ds_players) : ds_players[j] = last.players[i]

\* a construction that drops an expired contract, a player of 35 and an
\* academy player of 21 with a running contract, and keeps a sub over 21
C8_Witness ==
    /\ last.op = "DecisionSimulator"
    /\ SomeRow(last.players, LAMBDA r : r.contract_years <= 0)
    /\ SomeRow(last.players, LAMBDA r : r.age >= 2 * 35)
    /\ SomeRow(last.players, LAMBDA r :
           r.squad_hierarchy = ACADEMY /\ r.age >= 2 * 21 /\ r.age < 2 * 35
               /\ r.contract_years > 0)
    /\ SomeRow(ds_players, LAMBDA r :
           r.squad_hierarchy \in {STARTER, SUB} /\ r.age >= 2 * 21)

\* C9: after generate_prob_distribution the draw probability and the two
\* win probabilities add up to 100.
C9_ProbabilitiesSumTo100 ==
    last.op = "generate_prob_distribution" =>
        FAdd(FAdd(mp.draw_prob, mp.win_prob_a), mp.win_prob_b) = FInt(100)

C9_Witness ==
    /\ last.op = "generate_prob_distribution"
    /\ last.calls = 1
    /\ mp.skill_a = FInt(75)
    /\ mp.skill_b = FInt(40)
    /\ mp.draw_prob = Frac(35, 3)

SkillGap == FAbs(FSub(mp.skill_a, mp.skill_b))

NonNegative ==
    mp.draw_prob[1] >= 0 /\ mp.win_prob_a[1] >= 0 /\ mp.win_prob_b[1] >= 0

\* C10: for every pair of skill levels with |a - b| <= 100 the draw
\* probability and the two win probabilities are non-negative.
C10_NonNegativeUpTo100 ==
    (last.op = "generate_prob_distribution" /\ FTrunc(SkillGap) <= 100) =>
        NonNegative

\* the range on which _set_win_probability keeps both shares in 0 .. 100:
\* for |a - b| <= 50 the three probabilities are non-negative.
NonNegativeUpTo50 ==
    (last.op = "generate_prob_distribution" /\ SkillGap[1] <= 50 * SkillGap[2]) =>
        NonNegative

FullSquad(players) ==
    \A p \in Position : \A h \in SquadHierarchy :
        Cardinality({i \in 1 .. Len(players) :
            players[i].position = p /\ players[i].squad_hierarchy = h}) = 1

\* C12: on a full squad and an instruction with a positive share, every call
\* of get_set_line_up(), a repeated call on the same predictor included,
\* returns one player per position (eleven in the program), each from a tier
\* with a positive share.
C12_LineUpOnePerPosition ==
    (last.op = "get_set_line_up" /\ FullSquad(lup.squad_players)) =>
        /\ Len(lup.line_up) = NumPositions
        /\ \A p \in Position :
               Cardinality({i \in 1 .. Len(lup.line_up) :
                   lup.line_up[i].position = p}) = 1
        /\ \A i \in 1 .. Len(lup.line_up) :
               ShareOf(lup.config, lup.line_up[i].squad_hierarchy) > 0

C12_Witness ==
    /\ last.op = "get_set_line_up"
    /\ last.calls = 2
    /\ FullSquad(lup.squad_players)
    /\ last.players # <<>>
    /\ last.players # lup.line_up
    /\ Len(lup.line_up) = NumPositions

\* C13: the league_teams table run_season_half takes from the season-half
\* simulator is sorted by xPoints in non-increasing order, carries the index
\* 0 .. N-1 in row order, and every team's accumulated xPoints is >= 0.
C13_LeagueTeamsSorted ==
    (last.op = "run_season_half" /\ err = "none") =>
        /\ \A i \in 1 .. Len(league_teams) - 1 :
               league_teams[i].xPoints >= league_teams[i + 1].xPoints
        /\ \A i \in 1 .. Len(league_teams) : league_teams[i].index = i - 1
        /\ \A i \in 1 .. Len(league_teams) : league_teams[i].xPoints >= 0

C13_Witness ==
    /\ last.op = "run_season_half"
    /\ err = "none"
    /\ count.halves = 0
    /\ league_teams[1].squad_name = NumTeams
    /\ league_teams[1].xPoints > league_teams[Len(league_teams)].xPoints

\* C14: every skill value SkillConstraint returns for a starter, a sub or an
\* academy player, for a team strength in [0, 100] and sd >= 0, lies in
\* [0, 100] (0 .. 10000 in 1/100 skill point).
C14_SkillInRange ==
    last.op \in {"get_starter_skill", "get_sub_skill", "get_academy_skill"} =>
        (gen.skill >= 0 /\ gen.skill <= 10000)

\* C15: every generated player, of the league and of the market, has
\* skill <= potential <= 100, whatever its age bracket.
C15_SkillPotentialBounds ==
    last.op \in {"create_player", "_create_player"} =>
        /\ gen.player[1].skill_level <= gen.player[1].potential_level
        /\ gen.player[1].potential_level <= 10000

\* C16: every squad create_team returns has one player for each position in
\* each of the three tiers and no other player (33 = 11 x 3 in the program).
C16_SquadComposition ==
    last.op = "create_team" =>
        /\ Len(gen.squad) = 3 * NumPositions
        /\ FullSquad(gen.squad)

C16_Witness ==
    /\ last.op = "create_team"
    /\ gen.team_strength = 6000
    /\ Len(gen.squad) = 3 * NumPositions
    /\ gen.squad[1].position = 1
    /\ gen.squad[1].squad_hierarchy = STARTER
    /\ gen.squad[Len(gen.squad)].position = NumPositions
    /\ gen.squad[Len(gen.squad)].squad_hierarchy = ACADEMY

\* C17: after every operation that changes a player's age, contract_years,
\* skill_level or potential_level (update_players in the transfer window,
\* extend_contracts, a buy with its proposed contract) the stored player_value
\* is the valuation of the player's current attributes.
C17_ValueFollowsAttributes ==
    /\ (last.op = "run_transfer_window" /\ err = "none") =>
           AllRows(updated_squad, LAMBDA r : r.player_value = UpdateTransferValue(r))
    /\ (last.op \in {"extend_contracts", "buy_players"} /\ err = "none") =>
           AllRows(ds_players, LAMBDA r : r.player_value = UpdateTransferValue(r))

\* the fourteen columns of a player table
TableColumns ==
    {"player_name", "contract_years", "age", "position", "skill_level",
     "potential_level", "player_value", "squad_hierarchy", "injury_proneness",
     "team", "my_team", "n_matches", "minutes", "xPoints"}

\* C18: every player table that passes from one component to the next (the
\* league table after a season half, the squad run_transfer_window returns,
\* the league table after update_end_of_transfer_window and after
\* start_new_season) has exactly the fourteen columns; no phase adds or
\* removes one.
C18_FourteenColumns ==
    /\ (last.op = "run_season_half" /\ err = "none") => league_columns = TableColumns
    /\ (last.op = "run_transfer_window" /\ err = "none") =>
           UpdatePlayersColumns(tm.columns) = TableColumns
    /\ last.op \in {"update_end_of_transfer_window", "start_new_season"} =>
           league_columns = TableColumns

\* C19: the two skills fed to the match outcome model are the mean skill of
\* the home side's line-ups and, separately, the mean skill of the away
\* side's line-ups: the away value is computed from the away line-ups.
C19_AwaySkillFromAwayLineUp ==
    (last.op = "simulate_match" /\ err = "none") =>
        /\ mp.skill_a = SkillMean(lup.line_up)
        /\ mp.skill_b = SkillMean(opp.line_up)

\* the team a predictor of a match was built for
TeamOf(predictor) == predictor.squad_players[1].team

\* C20: in every match of a season half that involves the managed team, as
\* the team of the calendar or as the opponent, the managed team's line-ups
\* are drawn with the user's CoachInstruction and those of every other team
\* with the default 70/20/10.
C20_ManagedTeamOnUsersInstruction ==
    last.op = "simulate_match" =>
        /\ lup.config = InstructionOf(TeamOf(lup), my_team, instruction)
        /\ opp.config = InstructionOf(TeamOf(opp), my_team, instruction)
        /\ \A i \in 1 .. Len(opp.line_up) :
               ShareOf(InstructionOf(TeamOf(opp), my_team, instruction),
                       opp.line_up[i].squad_hierarchy) > 0

\* C21: a line-up draw that selects a (position, tier) cell without a player
\* ends in an invalid-squad-state error; get_set_line_up never returns
\* silently a line-up with fewer players than positions.
C21_EmptyCellIsAnError ==
    (last.op = "get_set_line_up" /\ Len(lup.line_up) < NumPositions) =>
        err # "none"

\* C22: update_end_of_transfer_window(slice) leaves every row of every other
\* team as it was and makes the managed team's rows of the league table
\* exactly the rows of the slice: no stale row of the managed team survives
\* and no player name occurs twice.
C22_SliceReplacesManagedRows ==
    last.op = "update_end_of_transfer_window" =>
        /\ SelectSeq(league_players, LAMBDA r : r.team # my_team)
               = SelectSeq(last.players, LAMBDA r : r.team # my_team)
        /\ SelectSeq(league_players, LAMBDA r : r.team = my_team) = last.df_players
        /\ \A i, j \in 1 .. Len(league_players) :
               league_players[i].player_name = league_players[j].player_name => i = j

C22_Witness ==
    /\ last.op = "update_end_of_transfer_window"
    /\ last.df_players # <<>>
    /\ Len(last.df_players) < 3 * NumPositions
    /\ SomeRow(last.players, LAMBDA r : r.team = my_team
                                        /\ r \notin Range(last.df_players))
    /\ SomeRow(league_players, LAMBDA r : r.team # my_team)

\* a bound of a skill window brought into 0 .. 100, in 1/100 skill point
Clamped(x) == IF x < 0 THEN 0 ELSE IF x > 10000 THEN 10000 ELSE x

\* C23: the skill of a sub lies in [ts - 1.5 sd, ts - 0.5 sd] and that of an
\* academy player in [ts - 2 sd, ts - sd], both windows clamped to [0, 100]:
\* no sub skill exceeds ts - 0.5 sd and no academy skill exceeds ts - sd.
C23_ShiftedSkillWindows ==
    /\ last.op = "get_sub_skill" =>
           /\ gen.skill >= Clamped(gen.team_strength - (3 * gen.strength_sd) \div 2)
           /\ gen.skill <= Clamped(gen.team_strength - gen.strength_sd \div 2)
    /\ last.op = "get_academy_skill" =>
           /\ gen.skill >= Clamped(gen.team_strength - 2 * gen.strength_sd)
           /\ gen.skill <= Clamped(gen.team_strength - gen.strength_sd)

\* the names of a list of players are pairwise distinct
DistinctNames(players) ==
    \A i, j \in 1 .. Len(players) :
        players[i].player_name = players[j].player_name => i = j

\* C24: the player names of a league made by create_league are pairwise
\* distinct across all squads; a name already used in the league is rejected
\* and drawn again.
C24_LeagueNamesDistinct ==
    last.op = "create_league" => DistinctNames(FlattenSeq(gen.league_squads))

C24_Witness ==
    /\ last.op = "create_league"
    /\ Len(gen.league_squads) = NumTeams
    /\ Len(FlattenSeq(gen.league_squads)) = NumTeams * 3 * NumPositions
    /\ gen.draws > NumTeams * 3 * NumPositions

\* C29: the players one generate_transfermarkt(n) call returns have names
\* that are pairwise distinct and distinct from every occupied name.
C29_MarketNamesDistinct ==
    last.op = "generate_transfermarkt" =>
        /\ DistinctNames(gen.market)
        /\ \A i \in 1 .. Len(gen.market) :
               gen.market[i].player_name \notin Range(gen.occupied_names)

\* C25: predict_player_value has no side effect: every call on the same
\* predictor returns the same value, and the predictor's age, contract,
\* skill, potential and injury stay what it was built on.
C25_PredictHasNoSideEffect ==
    last.op = "predict_player_value" =>
        /\ \A i \in 1 .. Len(last.report) : last.report[i] = last.report[1]
        /\ vp = last.players[1]

\* C26: every rejection-resampling loop (get_regular_age, get_academy_age,
\* get_skill) ends: it returns a value in range or, after a bounded number of
\* draws, a generation-failed error, whatever the parameters, bounds that no
\* draw satisfies included.
C26_ResamplingEnds ==
    <>(\/ phase = "returned" /\ ~OutOfRange(gen)
       \/ err = "generation-failed")

\* C27: at every run_transfer_window the performance ratio
\* xPoints / (n_matches * 3) of every player lies in [0, 1], so that the skill
\* bonus is at most minutes / 10; also in the second half of a season, when
\* the team's xPoints have accumulated over two halves.
C27_PerformanceRatioAtMostOne ==
    (last.op = "run_transfer_window" /\ err = "none") =>
        AllRows(tm.input, LAMBDA r :
            /\ r.xPoints >= 0
            /\ r.xPoints <= N_ITER * r.n_matches * 3
            /\ UpdateSkill(r).skill_bonus <= (r.minutes * 100) \div 10)

\* ---- the balance of a DecisionSimulator under sales and purchases ----

\* DecisionSimulator(squad_players, team_name) over the managed squad of a league
InitMoney ==
    /\ my_team = 1
    /\ instruction = DefaultInstruction
    /\ league_players = <<>>
    /\ league_columns = {}
    /\ league_teams = <<>>
    /\ \E variants \in [SquadHierarchy -> 1 .. 2] :
           /\ updated_squad = UpdatedPlayers(SetLeaguePlayers(my_team, variants), TRUE)
           /\ ds_players = AutoTermination(updated_squad)
           /\ last = Call("DecisionSimulator", updated_squad)
    /\ has_squad = TRUE
    /\ ds_exists = TRUE
    /\ money_to_spend = 0
    /\ tm = NoTm
    /\ mp = NewMatchPredictor(FInt(0), FInt(0))
    /\ lup = NoLineUpPredictor
    /\ opp = NoLineUpPredictor
    /\ vp = NoValuePredictor
    /\ gen = NoGenerator
    /\ err = "none"
    /\ count = Calls(0, MaxDecisions)
    /\ phase = "window"

NextMoney ==
    \/ SellPlayers
    \/ BuyPlayers

SpecMoney == InitMoney /\ [][NextMoney]_vars

\* C28: money_to_spend is never negative after any sequence of sell_players
\* and buy_players: it starts at 0, a sale adds exactly the summed value of
\* the rows it removed from the squad (a name that is not in the squad adds
\* nothing), and a purchase never takes the balance below 0.
C28_MoneyNeverNegative ==
    /\ money_to_spend >= 0
    /\ last.op = "DecisionSimulator" => money_to_spend = 0
    /\ last.op = "sell_players" =>
           LET sold == SelectSeq(last.players, LAMBDA r : r.player_name \notin SquadNames)
           IN  money_to_spend =
                   last.money + SumSeq([i \in 1 .. Len(sold) |-> sold[i].player_value])
    /\ last.op = "buy_players" => money_to_spend <= last.money

C28_Witness ==
    /\ last.op = "buy_players"
    /\ last.buy_list # <<>>
    /\ last.money > 0
    /\ Len(ds_players) < Len(AutoTermination(updated_squad))

\* C30: generate_prob_distribution is idempotent: a second call on the same
\* MatchPredictor leaves draw_prob, home_team_win_prob and away_team_win_prob
\* equal to the values they had after the first call.
C30_SecondCallChangesNothing ==
    [][last.op = "generate_prob_distribution" =>
           /\ mp'.draw_prob = mp.draw_prob
           /\ mp'.win_prob_a = mp.win_prob_a
           /\ mp'.win_prob_b = mp.win_prob_b]_vars

====
